---------------------------- MODULE Spec2Model ----------------------------
(***************************************************************************)
(* Patient resolution and retrieval of the CDS Hooks sandbox:              *)
(* retrievePatient and fetchFirstPatientId of                              *)
(* src/src/reducers/communication-reducers.js.                             *)
(*                                                                         *)
(* A JavaScript string is a sequence of one-character strings, so that     *)
(* emptiness, whitespace and concatenation are what they are in the code.  *)
(* A JavaScript value that may be undefined/null is a record [t, s].       *)
(***************************************************************************)
EXTENDS Integers, Sequences, FiniteSets

VARIABLES
    store,          \* Redux store: fhirServerState and patientState
    locationSearch, \* queryString.parse(window.location.search).patientId
    localStorage,   \* localStorage.getItem('PERSISTED_patientId')
    run,            \* per invocation of retrievePatient: its position and locals
    requests,       \* every axios GET issued so far, with its completion
    dispatched,     \* every action handed to store.dispatch so far
    launch,         \* scripts/dhti-launch.js: the node process and what it was asked
    component,      \* one CommunicationMessage: props, state, FileReaders, onChange calls
    communication   \* communicationReducers: initialState and the state it has returned

vars == <<store, locationSearch, localStorage, run, requests, dispatched, launch,
          component, communication>>

\* what retrievePatient has no access to
outside == <<launch, component, communication>>

\* what the launch script has no access to
browser == <<store, locationSearch, localStorage, run, requests, dispatched, component,
             communication>>

\* what the component has no access to
aroundComponent == <<store, locationSearch, localStorage, run, requests, dispatched, launch,
                     communication>>

\* what communicationReducers has no access to
aroundReducer == <<store, locationSearch, localStorage, run, requests, dispatched, launch,
                   component>>

(***************************************************************************)
(* Bounds of the model.                                                    *)
(***************************************************************************)
\* longest whitespace-only string an identifier source may hold
MaxSpaces == 1
\* most entries in the Bundle answering Patient?_count=1
MaxEntries == 2
\* longest string handed to the launch script's validators
MaxArgLen == 3
\* most command line arguments given to the launch script
MaxArgs == 4
\* most FileReaders of one component reading at the same time
MaxReads == 1
\* most onChange calls of one component that are followed
MaxChanges == 3

(***************************************************************************)
(* JavaScript values.                                                      *)
(***************************************************************************)
Absent == [t |-> "absent", s |-> <<>>]

Str(chars) == [t |-> "string", s |-> chars]

\* ToBoolean: undefined, null and '' are falsy, every other string is truthy
Truthy(v) == v.t = "string" /\ v.s # <<>>

\* a || b
Or(a, b) == IF Truthy(a) THEN a ELSE b

\* ToString, as applied inside a template literal
TemplateString(v) == IF v.t = "absent" THEN <<"u", "n", "d", "e", "f", "i", "n", "e", "d">> ELSE v.s

Spaces(n) == [i \in 1..n |-> " "]

\* String.prototype.trim() leaves nothing: the string is empty or whitespace-only
IsBlankString(chars) == \A i \in 1..Len(chars) : chars[i] = " "

\* what one identifier source may hold: nothing, '', whitespace, or its own id
SourceValues(id) ==
    {Absent, Str(<<>>), Str(id)} \cup {Str(Spaces(n)) : n \in 1..MaxSpaces}

OverrideId == <<"o">>
AuthId == <<"a">>
QueryId == <<"q">>
CachedId == <<"c">>
DefaultId == <<"d">>
DiscoveredId == <<"f">>
TokenChars == <<"t", "k">>

NoAccessToken == [isObject |-> FALSE, patient |-> Absent, access_token |-> Absent]

AccessTokens ==
    {NoAccessToken} \cup
    {[isObject |-> TRUE, patient |-> p, access_token |-> t] :
        p \in SourceValues(AuthId), t \in {Absent, Str(TokenChars)}}

FhirServers == {"https://fhir.example/r4", "https://other.example/fhir"}

Runs == {1}

(***************************************************************************)
(* Responses of the FHIR server.                                           *)
(***************************************************************************)
AxiosErrors == {"Network Error", "Request failed with status code 404"}

NoErr == "none"
ErrNoPatientId == "No patient id returned from FHIR server"
ErrPatientIdRequired == "Patient id is required to retrieve patient"
ErrInvalidPatient == "Invalid patient response"

BundleEntries ==
    {[hasResource |-> FALSE, id |-> Absent]} \cup
    {[hasResource |-> TRUE, id |-> i] : i \in SourceValues(DiscoveredId)}

EntryLists == UNION {[1..n -> BundleEntries] : n \in 0..MaxEntries}

NoData == [hasData |-> FALSE, entryIsArray |-> FALSE, entry |-> <<>>]

\* result.data of GET Patient?_count=1
DiscoveryBodies ==
    {NoData, [hasData |-> TRUE, entryIsArray |-> FALSE, entry |-> <<>>]} \cup
    {[hasData |-> TRUE, entryIsArray |-> TRUE, entry |-> e] : e \in EntryLists}

NoBody == [hasData |-> FALSE, resourceType |-> "", id |-> Absent]

\* result.data of GET Patient/{id}
PatientBodies(id) ==
    {NoBody} \cup
    {[hasData |-> TRUE, resourceType |-> rt, id |-> id] :
        rt \in {"Patient", "Observation"}}

\* conditionsResult.data of GET Condition?patient={id}
ConditionBodies(id) ==
    {NoBody, [hasData |-> TRUE, resourceType |-> "Bundle", id |-> id]}

(***************************************************************************)
(* retrievePatient, lines 152-173: the identifier from the local sources.  *)
(***************************************************************************)
ResolveAuthBeforeOverride(testPatient, accessToken, queryPatientId, persisted, defaultPatientId) ==
    LET p1 == IF accessToken.isObject /\ Truthy(accessToken.patient)
              THEN accessToken.patient
              ELSE Or(testPatient, Str(<<>>))
    IN  IF Truthy(p1)
        THEN p1
        ELSE Or(queryPatientId, Or(persisted, defaultPatientId))

ResolveWithoutDefault(testPatient, accessToken, queryPatientId, persisted, defaultPatientId) ==
    LET p0 == Or(testPatient, Str(<<>>))
        p1 == IF accessToken.isObject /\ ~Truthy(p0) THEN accessToken.patient ELSE p0
    IN  IF Truthy(p1) THEN p1 ELSE Or(queryPatientId, persisted)

ResolvePatient(testPatient, accessToken, queryPatientId, persisted, defaultPatientId) ==
    LET p0 == Or(testPatient, Str(<<>>))
        p1 == IF accessToken.isObject /\ ~Truthy(p0) THEN accessToken.patient ELSE p0
    IN  IF Truthy(p1)
        THEN p1
        ELSE Or(queryPatientId, Or(persisted, defaultPatientId))

(***************************************************************************)
(* retrievePatient, lines 155-166: the header set of every request.        *)
(***************************************************************************)
AcceptFhir == "application/json+fhir"
Bearer == <<"B", "e", "a", "r", "e", "r", " ">>

BuildHeaders(accessToken) ==
    IF accessToken.isObject
    THEN [Accept |-> AcceptFhir,
          Authorization |-> Bearer \o TemplateString(accessToken.access_token)]
    ELSE [Accept |-> AcceptFhir]

HasAuthorization(headers) == "Authorization" \in DOMAIN headers

(***************************************************************************)
(* fetchFirstPatientId, lines 132-135.                                     *)
(***************************************************************************)
AnyEntryPatientId(data) ==
    IF data.hasData /\ data.entryIsArray
          /\ \E i \in 1..Len(data.entry) :
                data.entry[i].hasResource /\ Truthy(data.entry[i].id)
    THEN LET i == CHOOSE i \in 1..Len(data.entry) :
                    data.entry[i].hasResource /\ Truthy(data.entry[i].id)
         IN  data.entry[i].id
    ELSE Absent

FirstPatientId(data) ==
    IF data.hasData /\ data.entryIsArray /\ Len(data.entry) > 0
          /\ data.entry[1].hasResource
    THEN data.entry[1].id
    ELSE Absent

(***************************************************************************)
(* retrievePatient, line 189.                                              *)
(***************************************************************************)
IsPatientResource(data) == data.hasData /\ data.resourceType = "Patient"

(***************************************************************************)
(* scripts/dhti-launch.js.  Its values: strings are Str(chars) as above;   *)
(* the tests also hand the validators null, undefined, numbers, objects    *)
(* and arrays.                                                             *)
(***************************************************************************)
Undefined == [t |-> "undefined"]
Null == [t |-> "null"]
Num(n) == [t |-> "number", n |-> n]
Bool(b) == [t |-> "boolean", b |-> b]
EmptyObject == [t |-> "object"]
EmptyArray == [t |-> "array"]

\* ToBoolean of any of these values
ToBoolean(v) ==
    CASE v.t \in {"undefined", "null"} -> FALSE
      [] v.t = "number" -> v.n # 0
      [] v.t = "boolean" -> v.b
      [] v.t = "string" -> v.s # <<>>
      [] v.t \in {"object", "array"} -> TRUE

LaunchChars == {"a", "/", " ", "\t"}
WhiteSpace == {" ", "\t"}

LaunchStrings == UNION {[1..n -> LaunchChars] : n \in 0..MaxArgLen}

LaunchValues ==
    {Undefined, Null, Num(0), Num(123), EmptyObject, EmptyArray}
        \cup {Str(c) : c \in LaunchStrings}

\* String.prototype.trim
RECURSIVE TrimStart(_)
TrimStart(chars) ==
    IF chars # <<>> /\ Head(chars) \in WhiteSpace THEN TrimStart(Tail(chars)) ELSE chars

RECURSIVE TrimEnd(_)
TrimEnd(chars) ==
    IF chars # <<>> /\ chars[Len(chars)] \in WhiteSpace
    THEN TrimEnd(SubSeq(chars, 1, Len(chars) - 1))
    ELSE chars

Trim(chars) == TrimEnd(TrimStart(chars))

\* encodeURIComponent: unreserved characters stay, the others become %XX
EncodeChar(c) ==
    CASE c = "a" -> <<"a">>
      [] c = "/" -> <<"%", "2", "F">>
      [] c = " " -> <<"%", "2", "0">>
      [] c = "\t" -> <<"%", "0", "9">>

RECURSIVE EncodeURIComponent(_)
EncodeURIComponent(chars) ==
    IF chars = <<>>
    THEN <<>>
    ELSE EncodeChar(Head(chars)) \o EncodeURIComponent(Tail(chars))

\* line 28 without .trim()
IsValidArgumentWithoutTrim(value) ==
    Bool(ToBoolean(IF ~ToBoolean(value) THEN value
                   ELSE IF value.t # "string" THEN Bool(FALSE)
                   ELSE Bool(Len(value.s) > 0)))

\* line 28 without the !! in front
IsValidArgumentWithoutCoercion(value) ==
    IF ~ToBoolean(value) THEN value
    ELSE IF value.t # "string" THEN Bool(FALSE)
    ELSE Bool(Len(Trim(value.s)) > 0)

\* isValidArgument, lines 27-29: !!(value && typeof value === 'string' && ...)
IsValidArgument(value) ==
    Bool(ToBoolean(IF ~ToBoolean(value) THEN value
                   ELSE IF value.t # "string" THEN Bool(FALSE)
                   ELSE Bool(Len(Trim(value.s)) > 0)))

RequiredMessage(paramName) == "Error: " \o paramName \o " is required and cannot be empty"

Threw(message) == [kind |-> "throw", message |-> message]
Exited(code, message) == [kind |-> "exit", code |-> code, message |-> message]
Returned(value) == [kind |-> "return", value |-> value]

\* line 49 without .trim()
ValidateAndEncodeUrlWithoutTrim(url, paramName, throwError) ==
    IF ~ToBoolean(IsValidArgument(url))
    THEN IF throwError
         THEN Threw(RequiredMessage(paramName))
         ELSE Exited(1, RequiredMessage(paramName))
    ELSE Returned(Str(EncodeURIComponent(url.s)))

\* validateAndEncodeUrl, lines 38-50
ValidateAndEncodeUrl(url, paramName, throwError) ==
    IF ~ToBoolean(IsValidArgument(url))
    THEN IF throwError
         THEN Threw(RequiredMessage(paramName))
         ELSE Exited(1, RequiredMessage(paramName))
    ELSE Returned(Str(EncodeURIComponent(Trim(url.s))))

\* validatePatientId, lines 58-70
ValidatePatientId(patientId, throwError) ==
    IF ~ToBoolean(IsValidArgument(patientId))
    THEN IF throwError
         THEN Threw("Error: Patient ID is required and cannot be empty")
         ELSE Exited(1, "Error: Patient ID is required and cannot be empty")
    ELSE Returned(Str(EncodeURIComponent(Trim(patientId.s))))

NoOutcome == [kind |-> "none"]
NoChild == [spawned |-> FALSE]

\* the module right after require() or at process start: nothing called yet
LaunchLoaded ==
    [pc |-> "loaded", fn |-> "", args |-> <<>>, throwError |-> FALSE,
     outcome |-> NoOutcome, child |-> NoChild, exitCode |-> -1]

\* a validator called by a test: it returns, throws, or exits the process
Called(fn, args, throwError, outcome) ==
    [LaunchLoaded EXCEPT !.pc = IF outcome.kind = "exit" THEN "exited" ELSE "called",
                         !.fn = fn, !.args = args, !.throwError = throwError,
                         !.outcome = outcome,
                         !.exitCode = IF outcome.kind = "exit" THEN outcome.code ELSE -1]

CallIsValidArgument(value) ==
    /\ launch.pc = "loaded"
    /\ launch' = Called("isValidArgument", <<value>>, FALSE,
                        Returned(IsValidArgument(value)))
    /\ UNCHANGED browser

CallValidateAndEncodeUrl(url, paramName, throwError) ==
    /\ launch.pc = "loaded"
    /\ launch' = Called("validateAndEncodeUrl", <<url, paramName>>, throwError,
                        ValidateAndEncodeUrl(url, paramName, throwError))
    /\ UNCHANGED browser

CallValidatePatientId(patientId, throwError) ==
    /\ launch.pc = "loaded"
    /\ launch' = Called("validatePatientId", <<patientId>>, throwError,
                        ValidatePatientId(patientId, throwError))
    /\ UNCHANGED browser

ParamNames == {"Test URL", "Discovery URL", "FHIR URL"}

\* process.argv.slice(2): strings only
ArgvStrings == {<<>>, <<" ">>, <<"a">>, <<" ", "a", "/", "\t">>}
ArgvLists == UNION {[1..n -> {Str(c) : c \in ArgvStrings}] : n \in 0..MaxArgs}

\* lines 97 and 107: the target webpack-dev-server is told to open
OpenTarget(encodedDiscoveryUrl, encodedFhirUrl, encodedPatientId) ==
    <<"/?serviceDiscoveryURL=", encodedDiscoveryUrl.s,
      "&fhirServiceUrl=", encodedFhirUrl.s,
      "&patientId=", encodedPatientId.s>>

Spawned(target) ==
    [spawned |-> TRUE, command |-> "npx",
     args |-> <<"webpack-dev-server", "--config", "webpack.config.dev.js",
                "--open", "--open-target", target>>,
     killed |-> "none"]

\* main with the count test of line 80 written as args.length < 3
MainAcceptsExtraArguments(args) ==
    IF Len(args) < 3
    THEN Exited(1, "Error: Exactly 3 arguments are required\n")
    ELSE LET d == ValidateAndEncodeUrl(args[1], "Discovery URL", FALSE)
             f == ValidateAndEncodeUrl(args[2], "FHIR URL", FALSE)
             p == ValidatePatientId(args[3], FALSE)
         IN  IF d.kind = "exit" THEN d
             ELSE IF f.kind = "exit" THEN f
             ELSE IF p.kind = "exit" THEN p
             ELSE [kind |-> "spawn", child |-> Spawned(OpenTarget(d.value, f.value, p.value))]

\* main, lines 75-119: exit(1), or the child process to spawn
MainOutcome(args) ==
    IF Len(args) # 3
    THEN Exited(1, "Error: Exactly 3 arguments are required\n")
    ELSE LET d == ValidateAndEncodeUrl(args[1], "Discovery URL", FALSE)
             f == ValidateAndEncodeUrl(args[2], "FHIR URL", FALSE)
             p == ValidatePatientId(args[3], FALSE)
         IN  IF d.kind = "exit" THEN d
             ELSE IF f.kind = "exit" THEN f
             ELSE IF p.kind = "exit" THEN p
             ELSE [kind |-> "spawn", child |-> Spawned(OpenTarget(d.value, f.value, p.value))]

\* the script executed directly: require.main === module, lines 146-148
Main(args) ==
    /\ launch.pc = "loaded"
    /\ LET o == MainOutcome(args)
       IN  launch' =
             IF o.kind = "exit"
             THEN [LaunchLoaded EXCEPT !.pc = "exited", !.fn = "main", !.args = args,
                                       !.outcome = o, !.exitCode = o.code]
             ELSE [LaunchLoaded EXCEPT !.pc = "serving", !.fn = "main", !.args = args,
                                       !.outcome = o, !.child = o.child]
    /\ UNCHANGED browser

\* lines 122-131: SIGINT or SIGTERM is passed on to the child, then exit(0)
Signal(sig) ==
    /\ launch.pc = "serving"
    /\ launch' = [launch EXCEPT !.pc = "exited", !.child.killed = sig, !.exitCode = 0]
    /\ UNCHANGED browser

\* lines 133-135: the child exits, the script exits with its code
ChildExit(code) ==
    /\ launch.pc = "serving"
    /\ launch' = [launch EXCEPT !.pc = "exited", !.exitCode = code]
    /\ UNCHANGED browser

LaunchNext ==
    \/ \E value \in LaunchValues : CallIsValidArgument(value)
    \/ \E url \in LaunchValues, paramName \in ParamNames, throwError \in BOOLEAN :
          CallValidateAndEncodeUrl(url, paramName, throwError)
    \/ \E patientId \in LaunchValues, throwError \in BOOLEAN :
          CallValidatePatientId(patientId, throwError)
    \/ \E args \in ArgvLists : Main(args)
    \/ \E sig \in {"SIGINT", "SIGTERM"} : Signal(sig)
    \/ \E code \in {0, 1} : ChildExit(code)

(***************************************************************************)
(* The CommunicationMessage component of                                   *)
(* src/src/actions/communication-actions.js.  A string is Text(s); a       *)
(* string that is the JSON text of an object is JsonText(object), so that  *)
(* JSON.stringify and JSON.parse are what they are on the objects that     *)
(* occur.                                                                  *)
(***************************************************************************)
Nothing == [k |-> "null"]
Text(s) == [k |-> "plain", s |-> s]
JsonText(object) == [k |-> "json", object |-> object]

\* ToBoolean of null, undefined and strings
IsSet(v) == v.k = "json" \/ (v.k = "plain" /\ v.s # "")

MAX_FILE_SIZE == 5 * 1024 * 1024
SUPPORTED_IMAGE_TYPES == {"image/png", "image/jpeg", "image/jpg", "image/gif", "image/webp"}

File(name, type, size) == [name |-> name, type |-> type, size |-> size]

Files ==
    {File("test.png", "image/png", 1024),
     File("limit.jpg", "image/jpg", MAX_FILE_SIZE),
     File("large.png", "image/png", MAX_FILE_SIZE + 1),
     File("test.pdf", "application/pdf", 1024)}

NoFile == File("", "", 0)

\* e.target.result of readAsDataURL
DataUrl(file) == Text("data:" \o file.type \o ";base64," \o file.name)

\* Number.prototype.toFixed(2) of size / 1024 / 1024, below 100
Digit(d) == <<"0", "1", "2", "3", "4", "5", "6", "7", "8", "9">>[d + 1]

MegabytesToFixed2(size) ==
    LET hundredths == (size * 100 + 512 * 1024) \div (1024 * 1024)
        whole == hundredths \div 100
        cents == hundredths % 100
    IN  (IF whole >= 10 THEN Digit(whole \div 10) ELSE "") \o Digit(whole % 10)
            \o "." \o Digit(cents \div 10) \o Digit(cents % 10)

UnsupportedTypeError(file) ==
    Text("Unsupported file type: " \o file.type
            \o ". Please select a PNG, JPEG, GIF, or WebP image.")

FileSizeError(file) ==
    Text("File size (" \o MegabytesToFixed2(file.size)
            \o "MB) exceeds maximum allowed size of 5MB.")

ReadError == Text("Failed to read file. Please try again.")

\* this.state of the constructor, lines 46-71
InitialState ==
    [text |-> Text(""), imageData |-> Nothing, imagePreview |-> Nothing,
     fileName |-> Nothing, error |-> Nothing, isDragOver |-> FALSE]

NoChange == [calls |-> 0, value |-> Nothing]

\* readers: the files of the FileReaders still reading, in the order they were
\* started.  last and fresh are history: the handler that ran last, and
\* whether the youngest reader belongs to the most recent accepted selection
\* with no removal since (every other reader was started before a removal or
\* before a later selection).

Constructed ==
    [mounted |-> FALSE, value |-> Nothing, state |-> InitialState,
     readers |-> <<>>, onChange |-> NoChange, last |-> "constructor",
     fresh |-> FALSE]

\* the value prop: '', text, and JSON texts with and without an image
PropImage == Text("data:image/png;base64,prop")

PropValues ==
    {Text(""), Text("Test message"),
     JsonText([image_url |-> PropImage, text |-> Text("Describe this image")]),
     JsonText([image_url |-> PropImage, text |-> Nothing]),
     JsonText([image_url |-> Nothing, text |-> Text("No image")])}

\* a text that is itself the JSON of an object with an image_url
TypedJson == JsonText([image_url |-> Text("https://example.org/a.png"), text |-> Text("caption")])

\* what the user may type into the textarea
Typed == {Text(""), Text("Test message"), TypedJson}

\* parseIncomingValue that sets the preview of an image only
ParseIncomingValueWithoutData(st, value) ==
    IF ~IsSet(value)
    THEN [st EXCEPT !.text = Text(""), !.imageData = Nothing,
                    !.imagePreview = Nothing, !.fileName = Nothing]
    ELSE IF value.k = "json" /\ IsSet(value.object.image_url)
               /\ value.object.image_url.k = "plain"
    THEN [st EXCEPT !.text = IF IsSet(value.object.text)
                             THEN value.object.text ELSE Text(""),
                    !.imagePreview = value.object.image_url,
                    !.fileName = Text("image")]
    ELSE [st EXCEPT !.text = value, !.imageData = Nothing,
                    !.imagePreview = Nothing, !.fileName = Nothing]

\* parseIncomingValue, lines 103-136: the state it sets
ParseIncomingValue(st, value) ==
    IF ~IsSet(value)
    THEN [st EXCEPT !.text = Text(""), !.imageData = Nothing,
                    !.imagePreview = Nothing, !.fileName = Nothing]
    ELSE IF value.k = "json" /\ IsSet(value.object.image_url)
               /\ value.object.image_url.k = "plain"
    THEN [st EXCEPT !.text = IF IsSet(value.object.text)
                             THEN value.object.text ELSE Text(""),
                    !.imageData = value.object.image_url,
                    !.imagePreview = value.object.image_url,
                    !.fileName = Text("image")]
    ELSE [st EXCEPT !.text = value, !.imageData = Nothing,
                    !.imagePreview = Nothing, !.fileName = Nothing]

\* buildMessagePayload, lines 142-154
BuildMessagePayload(st) ==
    IF IsSet(st.imageData)
    THEN JsonText([image_url |-> st.imageData,
                   text |-> IF IsSet(st.text) THEN st.text ELSE Text("")])
    ELSE st.text

\* render, lines 300-324: what the drop zone shows
ShowsUploadPrompt(st) == ~IsSet(st.imagePreview)
ShowsImagePreview(st) == IsSet(st.imagePreview)

\* this.props.onChange({ target: { value: this.buildMessagePayload() } })
Emit(st) ==
    [calls |-> component.onChange.calls + 1, value |-> BuildMessagePayload(st)]

CanEmit == component.onChange.calls < MaxChanges

\* componentDidMount, lines 87-89
Mount(value) ==
    /\ ~component.mounted
    /\ component' = [component EXCEPT !.mounted = TRUE, !.value = value,
                                      !.state = ParseIncomingValue(@, value),
                                      !.last = "componentDidMount"]
    /\ UNCHANGED aroundComponent

\* componentDidUpdate, lines 94-98, after the parent has set the value prop
ComponentDidUpdate(value) ==
    /\ component.mounted
    /\ value # Nothing
    /\ value # component.value
    /\ component' = [component EXCEPT !.value = value,
                                      !.state = IF value # BuildMessagePayload(@)
                                                THEN ParseIncomingValue(@, value)
                                                ELSE @,
                                      !.last = "componentDidUpdate"]
    /\ UNCHANGED aroundComponent

\* handleTextChange, lines 159-164
HandleTextChange(text) ==
    /\ component.mounted
    /\ CanEmit
    /\ LET st == [component.state EXCEPT !.text = text, !.error = Nothing]
       IN  component' = [component EXCEPT !.state = st, !.onChange = Emit(st),
                                          !.last = "handleTextChange"]
    /\ UNCHANGED aroundComponent

\* handleFileSelect with the size test written as >=
FileSelectRejectsTheLimit(c, file) ==
    IF file.type \notin SUPPORTED_IMAGE_TYPES
    THEN [c EXCEPT !.state.error = UnsupportedTypeError(file)]
    ELSE IF file.size >= MAX_FILE_SIZE
    THEN [c EXCEPT !.state.error = FileSizeError(file)]
    ELSE [c EXCEPT !.state.error = Nothing, !.readers = Append(@, file), !.fresh = TRUE]

\* handleFileSelect, lines 169-208: the error, or a FileReader started
FileSelect(c, file) ==
    IF file.type \notin SUPPORTED_IMAGE_TYPES
    THEN [c EXCEPT !.state.error = UnsupportedTypeError(file)]
    ELSE IF file.size > MAX_FILE_SIZE
    THEN [c EXCEPT !.state.error = FileSizeError(file)]
    ELSE [c EXCEPT !.state.error = Nothing, !.readers = Append(@, file), !.fresh = TRUE]

\* at most MaxReads FileReaders are followed at once
CanRead(c) == Len(c.readers) <= MaxReads

HandleFileSelect(file) ==
    /\ component.mounted
    /\ CanRead(FileSelect(component, file))
    /\ component' = [FileSelect(component, file) EXCEPT !.last = "handleFileSelect"]
    /\ UNCHANGED aroundComponent

\* handleFileInputChange, lines 213-218
HandleFileInputChange(file) ==
    /\ component.mounted
    /\ LET c == IF file # NoFile THEN FileSelect(component, file) ELSE component
       IN  /\ CanRead(c)
           /\ component' = [c EXCEPT !.last = IF file # NoFile THEN "handleFileSelect"
                                                ELSE "handleFileInputChange"]
    /\ UNCHANGED aroundComponent

\* handleDragOver, lines 223-227
HandleDragOver ==
    /\ component.mounted
    /\ component' = [component EXCEPT !.state.isDragOver = TRUE, !.last = "handleDragOver"]
    /\ UNCHANGED aroundComponent

\* handleDragLeave, lines 232-236
HandleDragLeave ==
    /\ component.mounted
    /\ component' = [component EXCEPT !.state.isDragOver = FALSE, !.last = "handleDragLeave"]
    /\ UNCHANGED aroundComponent

\* handleDrop, lines 241-250
HandleDrop(file) ==
    /\ component.mounted
    /\ LET dropped == [component EXCEPT !.state.isDragOver = FALSE]
           c == IF file # NoFile THEN FileSelect(dropped, file) ELSE dropped
       IN  /\ CanRead(c)
           /\ component' = [c EXCEPT !.last = IF file # NoFile THEN "handleFileSelect"
                                                ELSE "handleDrop"]
    /\ UNCHANGED aroundComponent

Without(readers, i) ==
    SubSeq(readers, 1, i - 1) \o SubSeq(readers, i + 1, Len(readers))

\* reader.onload, lines 191-201
ReaderLoad(i) ==
    /\ i \in 1..Len(component.readers)
    /\ CanEmit
    /\ LET file == component.readers[i]
           st == [component.state EXCEPT !.imageData = DataUrl(file),
                                         !.imagePreview = DataUrl(file),
                                         !.fileName = Text(file.name),
                                         !.error = Nothing]
       IN  component' = [component EXCEPT !.state = st, !.onChange = Emit(st),
                                          !.readers = Without(@, i),
                                          !.fresh = @ /\ i # Len(component.readers),
                                          !.last = "reader.onload"]
    /\ UNCHANGED aroundComponent

\* reader.onerror, lines 202-206
ReaderError(i) ==
    /\ i \in 1..Len(component.readers)
    /\ component' = [component EXCEPT !.state.error = ReadError,
                                      !.readers = Without(@, i),
                                      !.fresh = @ /\ i # Len(component.readers),
                                      !.last = "reader.onerror"]
    /\ UNCHANGED aroundComponent

\* handleRemoveImage that leaves the error in place
HandleRemoveImageKeepsError ==
    /\ component.mounted
    /\ CanEmit
    /\ LET st == [component.state EXCEPT !.imageData = Nothing,
                                         !.imagePreview = Nothing,
                                         !.fileName = Nothing]
       IN  component' = [component EXCEPT !.state = st, !.onChange = Emit(st),
                                          !.fresh = FALSE,
                                          !.last = "handleRemoveImage"]
    /\ UNCHANGED aroundComponent

\* handleRemoveImage, lines 255-269
HandleRemoveImage ==
    /\ component.mounted
    /\ CanEmit
    /\ LET st == [component.state EXCEPT !.imageData = Nothing,
                                         !.imagePreview = Nothing,
                                         !.fileName = Nothing,
                                         !.error = Nothing]
       IN  component' = [component EXCEPT !.state = st, !.onChange = Emit(st),
                                          !.fresh = FALSE,
                                          !.last = "handleRemoveImage"]
    /\ UNCHANGED aroundComponent

ComponentNext ==
    \/ \E value \in PropValues : Mount(value)
    \/ \E value \in PropValues : ComponentDidUpdate(value)
    \/ \E text \in Typed : HandleTextChange(text)
    \/ \E file \in Files : HandleFileSelect(file)
    \/ \E file \in Files \cup {NoFile} : HandleFileInputChange(file)
    \/ HandleDragOver
    \/ HandleDragLeave
    \/ \E file \in Files \cup {NoFile} : HandleDrop(file)
    \/ \E i \in 1..MaxReads : ReaderLoad(i)
    \/ \E i \in 1..MaxReads : ReaderError(i)
    \/ HandleRemoveImage

(***************************************************************************)
(* communicationReducers of src/src/reducers/communication-reducers.js,    *)
(* lines 48-117.  Strings and undefined are Str(chars) and Absent.         *)
(***************************************************************************)
Routine == <<"r", "o", "u", "t", "i", "n", "e">>

\* moment().toISOString() when the module is loaded, and later dates
FirstLoad == <<"T", "0">>
LoadTimes == {FirstLoad, <<"T", "1">>}
Dates == {Absent, Str(<<"T", "1">>), Str(<<"T", "2">>)}

\* initialState, lines 48-65, of a module loaded at time t
InitialStateAt(t) ==
    [message |-> Str(<<>>), priority |-> Str(Routine), recipient |-> Str(<<>>),
     authoredOn |-> Str(t)]

UndefinedState == [t |-> "undefined"]

HandledTypes ==
    {"STORE_USER_MED_INPUT", "STORE_COMMUNICATION_MESSAGE", "STORE_MED_DOSAGE_AMOUNT",
     "STORE_USER_CONDITION", "STORE_DATE", "RESET_SERVICES"}

\* types of other reducers and of Redux itself
OtherTypes == {"@@redux/INIT", "STORE_PATIENT", "SET_HOOK"}

\* what an action's field may hold
Inputs == {Absent, Str(<<>>), Str(<<"h", "i">>), Str(<<"u", "r", "g", "e", "n", "t">>)}

\* an action: its type and the one field its case reads
Action(type, value) == [type |-> type, value |-> value]

\* RESET_SERVICES that clears the texts and keeps the date
ReducersResetKeepingDate(initialState, given, action) ==
    LET state == IF given = UndefinedState THEN initialState ELSE given
    IN  CASE action.type = "STORE_USER_MED_INPUT" -> [state EXCEPT !.message = action.value]
          [] action.type = "STORE_COMMUNICATION_MESSAGE" -> [state EXCEPT !.message = action.value]
          [] action.type = "STORE_MED_DOSAGE_AMOUNT" ->
                [state EXCEPT !.priority = Or(action.value, state.priority)]
          [] action.type = "STORE_USER_CONDITION" ->
                [state EXCEPT !.recipient = Or(action.value, state.recipient)]
          [] action.type = "STORE_DATE" -> [state EXCEPT !.authoredOn = action.value]
          [] action.type = "RESET_SERVICES" ->
                [initialState EXCEPT !.authoredOn = state.authoredOn]
          [] OTHER -> state

\* communicationReducers(state = initialState, action), lines 67-117
CommunicationReducers(initialState, given, action) ==
    LET state == IF given = UndefinedState THEN initialState ELSE given
    IN  CASE action.type = "STORE_USER_MED_INPUT" -> [state EXCEPT !.message = action.value]
          [] action.type = "STORE_COMMUNICATION_MESSAGE" -> [state EXCEPT !.message = action.value]
          [] action.type = "STORE_MED_DOSAGE_AMOUNT" ->
                [state EXCEPT !.priority = Or(action.value, state.priority)]
          [] action.type = "STORE_USER_CONDITION" ->
                [state EXCEPT !.recipient = Or(action.value, state.recipient)]
          [] action.type = "STORE_DATE" -> [state EXCEPT !.authoredOn = action.value]
          [] action.type = "RESET_SERVICES" -> initialState
          [] OTHER -> state

\* the module loaded at time t and Redux's first call, reducer(undefined, init);
\* previous and type are history: the state and the action of the last call
Created(t) ==
    [initialState |-> InitialStateAt(t),
     state |-> CommunicationReducers(InitialStateAt(t), UndefinedState,
                                     Action("@@redux/INIT", Absent)),
     previous |-> UndefinedState,
     type |-> "@@redux/INIT"]

\* the store calls the reducer with its state and the action
Dispatch(action) ==
    /\ communication' =
          [communication EXCEPT
              !.state = CommunicationReducers(communication.initialState,
                                              communication.state, action),
              !.previous = communication.state,
              !.type = action.type]
    /\ UNCHANGED aroundReducer

ReducerNext ==
    \/ \E value \in Inputs : Dispatch(Action("STORE_USER_MED_INPUT", value))
    \/ \E value \in Inputs : Dispatch(Action("STORE_COMMUNICATION_MESSAGE", value))
    \/ \E value \in Inputs : Dispatch(Action("STORE_MED_DOSAGE_AMOUNT", value))
    \/ \E value \in Inputs : Dispatch(Action("STORE_USER_CONDITION", value))
    \/ \E value \in Dates : Dispatch(Action("STORE_DATE", value))
    \/ Dispatch(Action("RESET_SERVICES", Absent))
    \/ \E type \in OtherTypes, value \in Inputs : Dispatch(Action(type, value))

(***************************************************************************)
(* The state after the module is loaded: no run started, nothing sent.     *)
(***************************************************************************)
IdleRun ==
    [pc |-> "idle", testPatient |-> Absent, patient |-> Absent, fhirServer |-> "",
     headers |-> [Accept |-> AcceptFhir], result |-> NoBody, error |-> NoErr]

Init ==
    /\ store \in [accessToken : AccessTokens,
                  currentFhirServer : FhirServers,
                  defaultPatientId : SourceValues(DefaultId)]
    /\ locationSearch \in SourceValues(QueryId)
    /\ localStorage \in SourceValues(CachedId)
    /\ run = [r \in Runs |-> IdleRun]
    /\ requests = <<>>
    /\ dispatched = <<>>
    /\ launch = LaunchLoaded
    /\ component = Constructed
    /\ communication = Created(FirstLoad)

(***************************************************************************)
(* Building blocks of the steps.                                           *)
(***************************************************************************)
Get(r, kind, server, id, headers) ==
    [run |-> r, kind |-> kind, server |-> server, id |-> id, headers |-> headers,
     state |-> "pending", error |-> NoErr, data |-> NoBody]

\* the one pending request of run r
Pending(r, kind) ==
    {i \in 1..Len(requests) :
        requests[i].run = r /\ requests[i].kind = kind /\ requests[i].state = "pending"}

Settle(i, state, error, data) ==
    [requests EXCEPT ![i].state = state, ![i].error = error, ![i].data = data]

SuccessAction(r, patient, conditions) ==
    [run |-> r, type |-> "success", patient |-> patient, conditions |-> conditions]

FailureAction(r) ==
    [run |-> r, type |-> "failure", patient |-> NoBody, conditions |-> NoBody]

\* lines 207-210 without the dispatch
CatchWithoutDispatch(r, err, reqs) ==
    /\ dispatched' = dispatched
    /\ run' = [run EXCEPT ![r].pc = "thrown", ![r].error = err]
    /\ requests' = reqs

\* lines 207-210 without the re-throw
CatchWithoutThrow(r, err, reqs) ==
    /\ dispatched' = Append(dispatched, FailureAction(r))
    /\ run' = [run EXCEPT ![r].pc = "returned"]
    /\ requests' = reqs

\* lines 207-210 swallowing the error: nothing published, the promise never settles
CatchWithoutFinishing(r, err, reqs) ==
    /\ dispatched' = dispatched
    /\ run' = run
    /\ requests' = reqs

\* lines 207-210: publish the failure, throw the error again
Catch(r, err, reqs) ==
    /\ dispatched' = Append(dispatched, FailureAction(r))
    /\ run' = [run EXCEPT ![r].pc = "thrown", ![r].error = err]
    /\ requests' = reqs

\* both patient-context requests issued at once
FetchPatientAndConditions(r, patient, server, headers, reqs, testPatient) ==
    /\ requests' = Append(Append(reqs, Get(r, "patient", server, patient, headers)),
                          Get(r, "conditions", server, patient, headers))
    /\ run' = [run EXCEPT ![r].pc = "awaitPatient", ![r].patient = patient,
                          ![r].fhirServer = server, ![r].headers = headers,
                          ![r].testPatient = testPatient]
    /\ dispatched' = dispatched

\* a "loading" action dispatched while the patient request is issued
FetchPatientPublishingProgress(r, patient, server, headers, reqs, testPatient) ==
    /\ requests' = Append(reqs, Get(r, "patient", server, patient, headers))
    /\ run' = [run EXCEPT ![r].pc = "awaitPatient", ![r].patient = patient,
                          ![r].fhirServer = server, ![r].headers = headers,
                          ![r].testPatient = testPatient]
    /\ dispatched' = Append(dispatched, [run |-> r, type |-> "loading",
                                         patient |-> NoBody, conditions |-> NoBody])

\* lines 183-187: issue GET Patient/{patient}
FetchPatient(r, patient, server, headers, reqs, testPatient) ==
    /\ requests' = Append(reqs, Get(r, "patient", server, patient, headers))
    /\ run' = [run EXCEPT ![r].pc = "awaitPatient", ![r].patient = patient,
                          ![r].fhirServer = server, ![r].headers = headers,
                          ![r].testPatient = testPatient]
    /\ dispatched' = dispatched

(***************************************************************************)
(* retrievePatient(testPatient), lines 150-187, up to its first await.     *)
(***************************************************************************)
Call(r, testPatient) ==
    /\ run[r].pc = "idle"
    /\ LET accessToken == store.accessToken
           fhirServer == store.currentFhirServer
           headers == BuildHeaders(accessToken)
           patient == ResolvePatient(testPatient, accessToken, locationSearch,
                                     localStorage, store.defaultPatientId)
       IN  IF ~Truthy(patient)
           THEN /\ requests' = Append(requests,
                                      Get(r, "discovery", fhirServer, Absent, headers))
                /\ run' = [run EXCEPT ![r].pc = "awaitDiscovery",
                                      ![r].patient = patient,
                                      ![r].fhirServer = fhirServer,
                                      ![r].headers = headers,
                                      ![r].testPatient = testPatient]
                /\ dispatched' = dispatched
           ELSE FetchPatient(r, patient, fhirServer, headers, requests, testPatient)
    /\ UNCHANGED <<store, locationSearch, localStorage, outside>>

(***************************************************************************)
(* fetchFirstPatientId resumes, lines 126-141, then retrievePatient        *)
(* lines 176-187.                                                          *)
(***************************************************************************)
DiscoveryResolves(r, data) ==
    /\ run[r].pc = "awaitDiscovery"
    /\ \E i \in Pending(r, "discovery") :
          LET reqs == Settle(i, "resolved", NoErr, data)
              firstPatientId == FirstPatientId(data)
          IN  IF ~Truthy(firstPatientId)
              THEN Catch(r, ErrNoPatientId, reqs)
              ELSE IF ~Truthy(firstPatientId)
              THEN Catch(r, ErrPatientIdRequired, reqs)
              ELSE FetchPatient(r, firstPatientId, run[r].fhirServer,
                                run[r].headers, reqs, run[r].testPatient)
    /\ UNCHANGED <<store, locationSearch, localStorage, outside>>

DiscoveryRejects(r, err) ==
    /\ run[r].pc = "awaitDiscovery"
    /\ \E i \in Pending(r, "discovery") : Catch(r, err, Settle(i, "rejected", err, NoBody))
    /\ UNCHANGED <<store, locationSearch, localStorage, outside>>

(***************************************************************************)
(* GET Patient/{id} completes: lines 189-198.                              *)
(***************************************************************************)
\* the conditions request issued together with the patient request's failure handling
PatientInvalidStillFetches(r, data, reqs) ==
    /\ requests' = Append(reqs, Get(r, "conditions", run[r].fhirServer,
                                    run[r].patient, run[r].headers))
    /\ run' = [run EXCEPT ![r].pc = "awaitConditions", ![r].result = data]
    /\ dispatched' = dispatched

PatientInvalid(r, data, reqs) == Catch(r, ErrInvalidPatient, reqs)

\* the conditions request built from the store as it is when the patient arrives
PatientResolvesRereadingStore(r, data) ==
    /\ run[r].pc = "awaitPatient"
    /\ \E i \in Pending(r, "patient") :
          LET reqs == Settle(i, "resolved", NoErr, data)
          IN  IF ~IsPatientResource(data)
              THEN PatientInvalid(r, data, reqs)
              ELSE /\ requests' = Append(reqs, Get(r, "conditions", store.currentFhirServer,
                                                   run[r].patient,
                                                   BuildHeaders(store.accessToken)))
                   /\ run' = [run EXCEPT ![r].pc = "awaitConditions",
                                         ![r].result = data]
                   /\ dispatched' = dispatched
    /\ UNCHANGED <<store, locationSearch, localStorage, outside>>

PatientResolves(r, data) ==
    /\ run[r].pc = "awaitPatient"
    /\ \E i \in Pending(r, "patient") :
          LET reqs == Settle(i, "resolved", NoErr, data)
          IN  IF ~IsPatientResource(data)
              THEN PatientInvalid(r, data, reqs)
              ELSE /\ requests' = Append(reqs, Get(r, "conditions", run[r].fhirServer,
                                                   run[r].patient, run[r].headers))
                   /\ run' = [run EXCEPT ![r].pc = "awaitConditions",
                                         ![r].result = data]
                   /\ dispatched' = dispatched
    /\ UNCHANGED <<store, locationSearch, localStorage, outside>>

PatientRejects(r, err) ==
    /\ run[r].pc = "awaitPatient"
    /\ \E i \in Pending(r, "patient") : Catch(r, err, Settle(i, "rejected", err, NoBody))
    /\ UNCHANGED <<store, locationSearch, localStorage, outside>>

(***************************************************************************)
(* GET Condition?patient={id} completes: lines 200-206.                    *)
(***************************************************************************)
\* result kept in a variable of the module: the patient that arrived last, of any run
LatestResult ==
    LET arrived == {i \in 1..Len(requests) :
                        requests[i].kind = "patient" /\ requests[i].state = "resolved"}
    IN  requests[CHOOSE i \in arrived : \A j \in arrived : j <= i].data

ConditionsResolveSharedResult(r, data) ==
    /\ run[r].pc = "awaitConditions"
    /\ \E i \in Pending(r, "conditions") :
          /\ requests' = Settle(i, "resolved", NoErr, data)
          /\ dispatched' = Append(dispatched, SuccessAction(r, LatestResult, data))
          /\ run' = [run EXCEPT ![r].pc = "returned"]
    /\ UNCHANGED <<store, locationSearch, localStorage, outside>>

ConditionsResolve(r, data) ==
    /\ run[r].pc = "awaitConditions"
    /\ \E i \in Pending(r, "conditions") :
          /\ requests' = Settle(i, "resolved", NoErr, data)
          /\ dispatched' = Append(dispatched, SuccessAction(r, run[r].result, data))
          /\ run' = [run EXCEPT ![r].pc = "returned"]
    /\ UNCHANGED <<store, locationSearch, localStorage, outside>>

\* the conditions failure handed to the outer catch
ConditionsFailureFatal(r, err, reqs) == Catch(r, err, reqs)

\* the conditions request repeated after its failure
ConditionsFailureRetries(r, err, reqs) ==
    /\ requests' = Append(reqs, Get(r, "conditions", run[r].fhirServer,
                                    run[r].patient, run[r].headers))
    /\ dispatched' = dispatched
    /\ run' = run

\* lines 202-206: log, publish the patient alone, return
ConditionsFailure(r, err, reqs) ==
    /\ requests' = reqs
    /\ dispatched' = Append(dispatched, SuccessAction(r, run[r].result, NoBody))
    /\ run' = [run EXCEPT ![r].pc = "returned"]

ConditionsReject(r, err) ==
    /\ run[r].pc = "awaitConditions"
    /\ \E i \in Pending(r, "conditions") :
          ConditionsFailure(r, err, Settle(i, "rejected", err, NoBody))
    /\ UNCHANGED <<store, locationSearch, localStorage, outside>>

Next ==
    \E r \in Runs :
        \/ \E testPatient \in SourceValues(OverrideId) : Call(r, testPatient)
        \/ \E data \in DiscoveryBodies : DiscoveryResolves(r, data)
        \/ \E err \in AxiosErrors : DiscoveryRejects(r, err)
        \/ \E data \in PatientBodies(run[r].patient) : PatientResolves(r, data)
        \/ \E err \in AxiosErrors : PatientRejects(r, err)
        \/ \E data \in ConditionBodies(run[r].patient) : ConditionsResolve(r, data)
        \/ \E err \in AxiosErrors : ConditionsReject(r, err)

Spec == Init /\ [][Next]_vars

\* a GET that was issued is answered: axios resolves or rejects its promise
Responds(r) ==
    \/ \E data \in DiscoveryBodies : DiscoveryResolves(r, data)
    \/ \E err \in AxiosErrors : DiscoveryRejects(r, err)
    \/ \E data \in PatientBodies(run[r].patient) : PatientResolves(r, data)
    \/ \E err \in AxiosErrors : PatientRejects(r, err)
    \/ \E data \in ConditionBodies(run[r].patient) : ConditionsResolve(r, data)
    \/ \E err \in AxiosErrors : ConditionsReject(r, err)

\* retrievePatient with every issued GET eventually answered
LiveSpec == Spec /\ \A r \in Runs : WF_vars(Responds(r))

\* scripts/dhti-launch.js, required by its tests or executed directly
LaunchInit ==
    /\ Init
    /\ store.accessToken = NoAccessToken
    /\ store.defaultPatientId = Absent
    /\ locationSearch = Absent
    /\ localStorage = Absent
    /\ store.currentFhirServer = "https://fhir.example/r4"

LaunchSpec == LaunchInit /\ [][LaunchNext]_vars

\* one CommunicationMessage from its construction on
ComponentSpec == LaunchInit /\ [][ComponentNext]_vars

\* the communication reducer of a store created at one of the load times
ReducerInit ==
    /\ store = [accessToken |-> NoAccessToken,
                currentFhirServer |-> "https://fhir.example/r4",
                defaultPatientId |-> Absent]
    /\ locationSearch = Absent
    /\ localStorage = Absent
    /\ run = [r \in Runs |-> IdleRun]
    /\ requests = <<>>
    /\ dispatched = <<>>
    /\ launch = LaunchLoaded
    /\ component = Constructed
    /\ communication \in {Created(t) : t \in LoadTimes}

ReducerSpec == ReducerInit /\ [][ReducerNext]_vars

(***************************************************************************)
(* store.dispatch that throws (a reducer or a subscriber throws): the call *)
(* is made, and control goes to the enclosing catch.  Lines 193-211.       *)
(***************************************************************************)
ErrDispatch == "dispatch threw"

\* lines 207-210 with a dispatch that may throw: the failure is published,
\* then err is thrown, or the dispatch's own error
OuterCatch(r, err, failureThrows, published) ==
    /\ dispatched' = Append(published, FailureAction(r))
    /\ run' = [run EXCEPT ![r].pc = "thrown",
                          ![r].error = IF failureThrows THEN ErrDispatch ELSE err]

\* lines 202-206 with a dispatch that may throw: the patient alone is
\* published; if that throws, the outer catch runs
InnerCatch(r, patientOnlyThrows, failureThrows, published) ==
    LET again == Append(published, SuccessAction(r, run[r].result, NoBody))
    IN  IF patientOnlyThrows
        THEN OuterCatch(r, ErrDispatch, failureThrows, again)
        ELSE /\ dispatched' = again
             /\ run' = [run EXCEPT ![r].pc = "returned"]

\* line 200 throws: the dispatch sits inside the inner try
ConditionsResolveDispatchThrows(r, data, patientOnlyThrows, failureThrows) ==
    /\ run[r].pc = "awaitConditions"
    /\ \E i \in Pending(r, "conditions") :
          /\ requests' = Settle(i, "resolved", NoErr, data)
          /\ InnerCatch(r, patientOnlyThrows, failureThrows,
                        Append(dispatched, SuccessAction(r, run[r].result, data)))
    /\ UNCHANGED <<store, locationSearch, localStorage, outside>>

\* line 204 throws after the conditions request was rejected
ConditionsRejectDispatchThrows(r, err, failureThrows) ==
    /\ run[r].pc = "awaitConditions"
    /\ \E i \in Pending(r, "conditions") :
          /\ requests' = Settle(i, "rejected", err, NoBody)
          /\ InnerCatch(r, TRUE, failureThrows, dispatched)
    /\ UNCHANGED <<store, locationSearch, localStorage, outside>>

\* line 209 throws after the patient request was rejected
PatientRejectsDispatchThrows(r, err) ==
    /\ run[r].pc = "awaitPatient"
    /\ \E i \in Pending(r, "patient") :
          /\ requests' = Settle(i, "rejected", err, NoBody)
          /\ OuterCatch(r, err, TRUE, dispatched)
    /\ UNCHANGED <<store, locationSearch, localStorage, outside>>

ThrowingNext ==
    \/ Next
    \/ \E r \in Runs :
        \/ \E data \in ConditionBodies(run[r].patient), patientOnlyThrows, failureThrows \in BOOLEAN :
              ConditionsResolveDispatchThrows(r, data, patientOnlyThrows, failureThrows)
        \/ \E err \in AxiosErrors, failureThrows \in BOOLEAN :
              ConditionsRejectDispatchThrows(r, err, failureThrows)
        \/ \E err \in AxiosErrors : PatientRejectsDispatchThrows(r, err)

\* retrievePatient with a publisher that may throw
ThrowingSpec == Init /\ [][ThrowingNext]_vars

(***************************************************************************)
(* Two calls of retrievePatient in one page, interleaved at their awaits,  *)
(* while the Redux store, localStorage and the query string change.        *)
(***************************************************************************)
TwoRuns == {1, 2}

\* the store before and after a secured launch
OverlapStores ==
    {[accessToken |-> NoAccessToken,
      currentFhirServer |-> "https://fhir.example/r4",
      defaultPatientId |-> Absent],
     [accessToken |-> [isObject |-> TRUE, patient |-> Str(AuthId),
                       access_token |-> Str(TokenChars)],
      currentFhirServer |-> "https://other.example/fhir",
      defaultPatientId |-> Str(DefaultId)]}

\* another reducer changes fhirServerState and patientState
StoreChanges(s) ==
    /\ s # store
    /\ store' = s
    /\ UNCHANGED <<locationSearch, localStorage, run, requests, dispatched, outside>>

\* the page is navigated to another query string
QueryChanges(v) ==
    /\ v # locationSearch
    /\ locationSearch' = v
    /\ UNCHANGED <<store, localStorage, run, requests, dispatched, outside>>

\* PERSISTED_patientId is set or removed
CacheChanges(v) ==
    /\ v # localStorage
    /\ localStorage' = v
    /\ UNCHANGED <<store, locationSearch, run, requests, dispatched, outside>>

OverlapInit ==
    /\ store \in OverlapStores
    /\ locationSearch = Absent
    /\ localStorage = Absent
    /\ run = [r \in TwoRuns |-> IdleRun]
    /\ requests = <<>>
    /\ dispatched = <<>>
    /\ launch = LaunchLoaded
    /\ component = Constructed
    /\ communication = Created(FirstLoad)

OverlapNext ==
    \/ \E s \in OverlapStores : StoreChanges(s)
    \/ \E v \in {Absent, Str(QueryId)} : QueryChanges(v)
    \/ \E v \in {Absent, Str(CachedId)} : CacheChanges(v)
    \/ \E r \in TwoRuns :
        \/ \E testPatient \in {Absent, Str(OverrideId)} : Call(r, testPatient)
        \/ \E data \in {NoData, [hasData |-> TRUE, entryIsArray |-> TRUE,
                                 entry |-> <<[hasResource |-> TRUE, id |-> Str(DiscoveredId)]>>]} :
              DiscoveryResolves(r, data)
        \/ DiscoveryRejects(r, "Network Error")
        \/ \E data \in PatientBodies(run[r].patient) : PatientResolves(r, data)
        \/ PatientRejects(r, "Network Error")
        \/ \E data \in ConditionBodies(run[r].patient) : ConditionsResolve(r, data)
        \/ ConditionsReject(r, "Network Error")

OverlapSpec == OverlapInit /\ [][OverlapNext]_vars

(***************************************************************************)
(* What the properties read from a state.                                  *)
(***************************************************************************)
Started(r) == run[r].pc # "idle"
Finished(r) == run[r].pc \in {"returned", "thrown"}

RequestsOf(r, kind) ==
    {i \in 1..Len(requests) : requests[i].run = r /\ requests[i].kind = kind}

DispatchesOf(r, type) ==
    {i \in 1..Len(dispatched) : dispatched[i].run = r /\ dispatched[i].type = type}

\* the five sources in their documented order, as run r was given them
SourcesOf(r) ==
    <<run[r].testPatient,
      IF store.accessToken.isObject THEN store.accessToken.patient ELSE Absent,
      locationSearch,
      localStorage,
      store.defaultPatientId>>

NonEmpty(v) == v.t = "string" /\ Len(v.s) > 0

\* the first non-empty value of a tuple of sources, Absent when there is none
FirstNonEmpty(srcs) ==
    IF \E k \in 1..Len(srcs) : NonEmpty(srcs[k])
    THEN srcs[CHOOSE k \in 1..Len(srcs) :
                 NonEmpty(srcs[k]) /\ \A j \in 1..(k - 1) : ~NonEmpty(srcs[j])]
    ELSE Absent

\* the patient GET of run r did not deliver a Patient resource
PatientFetchFailed(r) ==
    \E i \in RequestsOf(r, "patient") :
        \/ requests[i].state = "rejected"
        \/ /\ requests[i].state = "resolved"
           /\ (~requests[i].data.hasData \/ requests[i].data.resourceType # "Patient")

\* the discovery GET of run r did not deliver an identifier
NoIdInFirstEntry(data) ==
    \/ ~data.hasData
    \/ ~data.entryIsArray
    \/ Len(data.entry) = 0
    \/ ~data.entry[1].hasResource
    \/ ~NonEmpty(data.entry[1].id)

DiscoveryFailed(r) ==
    \E i \in RequestsOf(r, "discovery") :
        \/ requests[i].state = "rejected"
        \/ requests[i].state = "resolved" /\ NoIdInFirstEntry(requests[i].data)

(***************************************************************************)
(* C1: the patient request of a run that resolved its identifier locally   *)
(* carries the first non-empty source in the order override, AuthContext   *)
(* patient, query-string patientId, cached identifier, configured default; *)
(* a non-empty override is used whatever the other sources hold.           *)
(***************************************************************************)
C1_SelectionOrder ==
    \A r \in Runs :
        Started(r) =>
            /\ NonEmpty(FirstNonEmpty(SourcesOf(r))) =>
                  /\ RequestsOf(r, "patient") # {}
                  /\ \A i \in RequestsOf(r, "patient") :
                        requests[i].id = FirstNonEmpty(SourcesOf(r))
            /\ NonEmpty(run[r].testPatient) =>
                  \A i \in RequestsOf(r, "patient") :
                        requests[i].id = run[r].testPatient

\* an override given inside an authenticated launch that names another patient
C1_Witness ==
    \E r \in Runs :
        /\ NonEmpty(run[r].testPatient)
        /\ store.accessToken.isObject /\ NonEmpty(store.accessToken.patient)
        /\ NonEmpty(locationSearch)
        /\ \E i \in RequestsOf(r, "patient") : requests[i].id = Str(OverrideId)

(***************************************************************************)
(* C2: the identifier placed in the Patient/{id} and Condition?patient=    *)
(* requests is never empty and never whitespace-only.                      *)
(***************************************************************************)
C2_IdNeverBlank ==
    \A i \in 1..Len(requests) :
        requests[i].kind \in {"patient", "conditions"} =>
            /\ requests[i].id.t = "string"
            /\ ~IsBlankString(requests[i].id.s)

(***************************************************************************)
(* C3: a patient fetch that rejects, or answers with no body or a body     *)
(* that is no Patient resource, ends the run with publishFailure called    *)
(* once, publishSuccess never, and an error thrown to the caller.          *)
(***************************************************************************)
C3_PatientFailureFatal ==
    \A r \in Runs :
        PatientFetchFailed(r) =>
            /\ Cardinality(DispatchesOf(r, "failure")) = 1
            /\ DispatchesOf(r, "success") = {}
            /\ run[r].pc = "thrown"
            /\ run[r].error # NoErr

\* the server answered the patient request with an Observation
C3_Witness ==
    \E r \in Runs :
        /\ run[r].pc = "thrown"
        /\ \E i \in RequestsOf(r, "patient") :
              /\ requests[i].state = "resolved"
              /\ requests[i].data.resourceType = "Observation"

(***************************************************************************)
(* C4: when the patient fetch succeeded and the Condition GET rejects, the *)
(* run calls publishSuccess with the patient and no conditions, never      *)
(* publishFailure, and returns normally (the publisher returning           *)
(* normally).                                                              *)
(***************************************************************************)
ConditionsRejected(r) ==
    \E i \in RequestsOf(r, "conditions") : requests[i].state = "rejected"

C4_ConditionsFailureAbsorbed ==
    \A r \in Runs :
        ConditionsRejected(r) =>
            /\ run[r].pc = "returned"
            /\ run[r].error = NoErr
            /\ DispatchesOf(r, "failure") = {}
            /\ Cardinality(DispatchesOf(r, "success")) = 1
            /\ \A k \in DispatchesOf(r, "success") :
                  /\ dispatched[k].conditions = NoBody
                  /\ IsPatientResource(dispatched[k].patient)
                  /\ \E i \in RequestsOf(r, "patient") :
                        dispatched[k].patient = requests[i].data

C4_Witness ==
    \E r \in Runs :
        /\ ConditionsRejected(r)
        /\ run[r].pc = "returned"
        /\ \E k \in DispatchesOf(r, "success") : dispatched[k].patient.id = Str(QueryId)

(***************************************************************************)
(* C5: every run calls the state publisher exactly once in total, for      *)
(* every combination of success and failure of the discovery, patient and  *)
(* conditions GETs (the publisher returning normally): nothing before the  *)
(* run ends, one call when it has ended.                                   *)
(***************************************************************************)
PublicationsOf(r) == DispatchesOf(r, "success") \cup DispatchesOf(r, "failure")

C5_PublishedExactlyOnce ==
    \A r \in Runs :
        /\ Finished(r) => Cardinality(PublicationsOf(r)) = 1
        /\ ~Finished(r) => PublicationsOf(r) = {}

\* a run that went through discovery, the patient fetch and a failed conditions fetch
C5_Witness ==
    \E r \in Runs :
        /\ Finished(r)
        /\ RequestsOf(r, "discovery") # {}
        /\ ConditionsRejected(r)
        /\ Cardinality(PublicationsOf(r)) = 1

(***************************************************************************)
(* C6: when no source yields an identifier and discovery rejects, or       *)
(* answers with no entries, or with a first entry without a resource id    *)
(* (later entries are not consulted), the run calls publishFailure once,   *)
(* publishSuccess never, throws, and issues no Patient/{id} request.       *)
(***************************************************************************)
C6_DiscoveryFailureFatal ==
    \A r \in Runs :
        DiscoveryFailed(r) =>
            /\ Cardinality(DispatchesOf(r, "failure")) = 1
            /\ DispatchesOf(r, "success") = {}
            /\ run[r].pc = "thrown"
            /\ run[r].error # NoErr
            /\ RequestsOf(r, "patient") = {}

\* the first entry carries no id, the second one does
C6_Witness ==
    \E r \in Runs :
        /\ run[r].pc = "thrown"
        /\ \E i \in RequestsOf(r, "discovery") :
              /\ requests[i].state = "resolved"
              /\ Len(requests[i].data.entry) = 2
              /\ ~NonEmpty(requests[i].data.entry[1].id)
              /\ NonEmpty(requests[i].data.entry[2].id)

(***************************************************************************)
(* C7: a run issues the discovery GET if and only if none of its five      *)
(* sources holds a non-empty identifier, and the discovery GET has         *)
(* completed before the patient request is issued.                         *)
(***************************************************************************)
C7_DiscoveryOnlyAsLastResort ==
    \A r \in Runs :
        Started(r) =>
            /\ RequestsOf(r, "discovery") # {} <=> ~NonEmpty(FirstNonEmpty(SourcesOf(r)))
            /\ \A i \in RequestsOf(r, "discovery") :
                  \A j \in RequestsOf(r, "patient") :
                        i < j /\ requests[i].state = "resolved"

C7_Witness ==
    \E r \in Runs :
        /\ \E i \in RequestsOf(r, "discovery") : requests[i].state = "resolved"
        /\ \E j \in RequestsOf(r, "patient") : requests[j].id = Str(DiscoveredId)

(***************************************************************************)
(* C8: every request carries an Authorization header if and only if an     *)
(* access token was supplied, and then it is "Bearer <token>"; an          *)
(* AuthContext with only a patient claim produces no Authorization header. *)
(***************************************************************************)
TokenSupplied == store.accessToken.isObject /\ NonEmpty(store.accessToken.access_token)

C8_AuthorizationIffToken ==
    \A i \in 1..Len(requests) :
        /\ HasAuthorization(requests[i].headers) <=> TokenSupplied
        /\ TokenSupplied =>
              requests[i].headers.Authorization = Bearer \o store.accessToken.access_token.s

(***************************************************************************)
(* C9: the Condition GET is issued only after the Patient/{id} GET of the  *)
(* same run has completed with a valid Patient resource; the two are never *)
(* in flight together, and a run whose patient fetch failed issues no      *)
(* Condition GET.                                                          *)
(***************************************************************************)
C9_PatientThenConditions ==
    \A r \in Runs :
        /\ \A j \in RequestsOf(r, "conditions") :
              \E i \in RequestsOf(r, "patient") :
                    /\ i < j
                    /\ requests[i].state = "resolved"
                    /\ requests[i].data.hasData
                    /\ requests[i].data.resourceType = "Patient"
        /\ ~(Pending(r, "patient") # {} /\ Pending(r, "conditions") # {})
        /\ PatientFetchFailed(r) => RequestsOf(r, "conditions") = {}

C9_Witness ==
    \E r \in Runs :
        /\ Pending(r, "conditions") # {}
        /\ \E i \in RequestsOf(r, "patient") : requests[i].state = "resolved"

(***************************************************************************)
(* C10: a run throws to its caller if and only if it called                *)
(* publishFailure and returns normally if and only if it called            *)
(* publishSuccess; the error thrown is the one that caused the failure     *)
(* (the publisher returning normally).                                     *)
(***************************************************************************)
\* the error that made run r fail, read from what its requests met
FailureCause(r) ==
    IF \E i \in 1..Len(requests) : requests[i].run = r /\ requests[i].state = "rejected"
          /\ requests[i].kind # "conditions"
    THEN LET i == CHOOSE i \in 1..Len(requests) :
                    requests[i].run = r /\ requests[i].state = "rejected"
                    /\ requests[i].kind # "conditions"
         IN  requests[i].error
    ELSE IF DiscoveryFailed(r) THEN ErrNoPatientId
    ELSE IF PatientFetchFailed(r) THEN ErrInvalidPatient
    ELSE NoErr

C10_ResultMatchesPublication ==
    \A r \in Runs :
        /\ run[r].pc = "thrown" <=> DispatchesOf(r, "failure") # {}
        /\ run[r].pc = "returned" <=> DispatchesOf(r, "success") # {}
        /\ run[r].pc = "thrown" => run[r].error # NoErr /\ run[r].error = FailureCause(r)
        /\ run[r].pc # "thrown" => run[r].error = NoErr

C10_Witness ==
    \E r \in Runs :
        /\ run[r].pc = "thrown"
        /\ run[r].error = "Request failed with status code 404"
        /\ DispatchesOf(r, "failure") # {}

(***************************************************************************)
(* C11: no retries: within one run each of the three GETs (discovery,      *)
(* patient, conditions) is issued at most once, so a run makes at most     *)
(* three requests and a failed request is never repeated.                  *)
(***************************************************************************)
AllRequestsOf(r) == {i \in 1..Len(requests) : requests[i].run = r}

C11_NoRetries ==
    \A r \in Runs :
        /\ \A kind \in {"discovery", "patient", "conditions"} :
              Cardinality(RequestsOf(r, kind)) <= 1
        /\ Cardinality(AllRequestsOf(r)) <= 3

\* three requests made, the last of them failed, and the run is over
C11_Witness ==
    \E r \in Runs :
        /\ Finished(r)
        /\ Cardinality(AllRequestsOf(r)) = 3
        /\ \E i \in RequestsOf(r, "conditions") : requests[i].state = "rejected"

(***************************************************************************)
(* C12: a run does not write the shared store while it resolves,           *)
(* discovers or fetches: the store, the query string and the persisted     *)
(* identifier cache stay as they were, and the only thing handed to        *)
(* store.dispatch is the single publication, in the step that ends the     *)
(* run.                                                                    *)
(***************************************************************************)
C12_StoreUntouchedUntilPublished ==
    [][/\ store' = store
       /\ localStorage' = localStorage
       /\ locationSearch' = locationSearch
       /\ dispatched' # dispatched =>
             \E r \in Runs :
                 /\ ~Finished(r)
                 /\ run'[r].pc \in {"returned", "thrown"}
                 /\ Len(dispatched') = Len(dispatched) + 1
                 /\ dispatched'[Len(dispatched')].run = r]_vars

\* in the middle of a run that went through discovery: nothing dispatched yet
C12_Witness ==
    \E r \in Runs :
        /\ run[r].pc = "awaitConditions"
        /\ RequestsOf(r, "discovery") # {}
        /\ dispatched = <<>>

(***************************************************************************)
(* C13: provided every GET that is issued is eventually answered, every    *)
(* started run eventually publishes an outcome and returns or throws; the  *)
(* stages are passed in the order resolve, optional discovery, patient     *)
(* fetch, conditions fetch, published, and no stage is entered again.      *)
(***************************************************************************)
StageRank(pc) ==
    CASE pc = "idle" -> 0
      [] pc = "awaitDiscovery" -> 1
      [] pc = "awaitPatient" -> 2
      [] pc = "awaitConditions" -> 3
      [] pc \in {"returned", "thrown"} -> 4

C13_RunsToPublished ==
    /\ \A r \in Runs :
          Started(r) ~> (Finished(r) /\ PublicationsOf(r) # {})
    /\ [][\A r \in Runs :
             run'[r].pc # run[r].pc => StageRank(run'[r].pc) > StageRank(run[r].pc)]_vars

\* a run that passed through every stage
C13_Witness ==
    \E r \in Runs :
        /\ run[r].pc = "returned"
        /\ \E i \in RequestsOf(r, "discovery") : requests[i].state = "resolved"
        /\ \E i \in RequestsOf(r, "patient") : requests[i].state = "resolved"
        /\ \E i \in RequestsOf(r, "conditions") : requests[i].state = "resolved"

(***************************************************************************)
(* What the launch script's properties read: a value is a usable argument  *)
(* when it is a string with a character that is not whitespace; its core   *)
(* is what lies between its first and its last such character.             *)
(***************************************************************************)
HasNonWhiteSpace(v) ==
    v.t = "string" /\ \E i \in 1..Len(v.s) : v.s[i] \notin WhiteSpace

Core(chars) ==
    LET inked == {i \in 1..Len(chars) : chars[i] \notin WhiteSpace}
        first == CHOOSE i \in inked : \A j \in inked : i <= j
        last == CHOOSE i \in inked : \A j \in inked : j <= i
    IN  IF inked = {} THEN <<>> ELSE SubSeq(chars, first, last)

(***************************************************************************)
(* C15: validateAndEncodeUrl and validatePatientId called with             *)
(* throwError = true throw "Error: <name> is required and cannot be empty" *)
(* exactly when isValidArgument rejects the input (empty, whitespace-only, *)
(* null, not a string), and otherwise return the URI-component encoding of *)
(* the input without its leading and trailing whitespace.                  *)
(***************************************************************************)
C15_ValidatorsThrowOrEncode ==
    (launch.fn \in {"validateAndEncodeUrl", "validatePatientId"} /\ launch.throwError) =>
        LET v == launch.args[1]
            name == IF launch.fn = "validateAndEncodeUrl"
                    THEN launch.args[2] ELSE "Patient ID"
        IN  /\ launch.pc = "called"
            /\ launch.outcome.kind = "throw" <=> ~IsValidArgument(v).b
            /\ IF HasNonWhiteSpace(v)
               THEN launch.outcome = Returned(Str(EncodeURIComponent(Core(v.s))))
               ELSE launch.outcome =
                       Threw("Error: " \o name \o " is required and cannot be empty")

\* whitespace around a character that has to be escaped
C15_Witness ==
    /\ launch.fn = "validateAndEncodeUrl"
    /\ launch.throwError
    /\ launch.args[1] = Str(<<" ", "/", "\t">>)
    /\ launch.outcome = Returned(Str(<<"%", "2", "F">>))

(***************************************************************************)
(* C16: isValidArgument returns true exactly when its argument is a string *)
(* with at least one non-whitespace character and false for every other    *)
(* value (empty or whitespace-only string, null, undefined, number,        *)
(* object, array); the result is always a boolean.                         *)
(***************************************************************************)
C16_IsValidArgumentExact ==
    launch.fn = "isValidArgument" =>
        /\ launch.outcome.kind = "return"
        /\ launch.outcome.value.t = "boolean"
        /\ launch.outcome.value = Bool(HasNonWhiteSpace(launch.args[1]))

C16_Witness ==
    /\ launch.fn = "isValidArgument"
    /\ launch.args[1] = Str(<<" ", "\t">>)
    /\ launch.outcome = Returned(Bool(FALSE))

(***************************************************************************)
(* C20: main spawns webpack-dev-server if and only if exactly three        *)
(* arguments are given and each is non-empty after trimming; in every      *)
(* other case the process exits with status 1 and no child process is      *)
(* ever spawned.                                                           *)
(***************************************************************************)
C20_SpawnOnlyAfterValidation ==
    launch.fn = "main" =>
        LET ok == /\ Len(launch.args) = 3
                  /\ \A i \in 1..Len(launch.args) : HasNonWhiteSpace(launch.args[i])
        IN  /\ launch.child.spawned <=> ok
            /\ ok => launch.child.args[1] = "webpack-dev-server"
            /\ ~ok => launch.pc = "exited" /\ launch.exitCode = 1

\* the dev server running for arguments that needed trimming
C20_Witness ==
    /\ launch.pc = "serving"
    /\ launch.child.spawned
    /\ launch.args[3] = Str(<<" ", "a", "/", "\t">>)


(***************************************************************************)
(* Claims about the CommunicationMessage component, under ComponentSpec.   *)
(***************************************************************************)
SelectHandlers == {"handleFileSelect", "handleFileInputChange", "handleDrop"}

\* a step in which handleFileSelect runs on the file
SelectsFile(file) ==
    HandleFileSelect(file) \/ HandleFileInputChange(file) \/ HandleDrop(file)

\* not a supported image type, or more than 5 MB
Rejected(file) ==
    \/ file.type \notin {"image/png", "image/jpeg", "image/jpg", "image/gif", "image/webp"}
    \/ file.size > 5 * 1024 * 1024

ImageOf(c) == <<c.state.imageData, c.state.imagePreview, c.state.fileName>>

\* C17: handleFileSelect on a file of an unsupported type or of more than
\* 5 MB sets the error, starts no read, keeps imageData, imagePreview and
\* fileName and calls no onChange; on a supported file of at most 5 MB
\* (exactly 5 MB included) it starts a read, and when the read completes the
\* file's data is the image and error is null.
C17_FileValidation ==
    [][ /\ \A file \in Files :
            (component'.last \in SelectHandlers /\ SelectsFile(file)) =>
                /\ ImageOf(component') = ImageOf(component)
                /\ component'.onChange = component.onChange
                /\ IF Rejected(file)
                   THEN /\ component'.state.error # Nothing
                        /\ component'.readers = component.readers
                   ELSE /\ component'.state.error = Nothing
                        /\ component'.readers = Append(component.readers, file)
        /\ \A i \in 1..Len(component.readers) :
            (component'.last = "reader.onload" /\ ReaderLoad(i)) =>
                /\ ~Rejected(component.readers[i])
                /\ component'.state.error = Nothing
                /\ component'.state.imageData = DataUrl(component.readers[i])
      ]_vars

\* the file of exactly 5 MB was read, then the one of 5 MB + 1 was refused
C17_Witness ==
    /\ component.last \in SelectHandlers
    /\ component.state.fileName = Text("limit.jpg")
    /\ component.state.imageData = DataUrl(File("limit.jpg", "image/jpg", 5 * 1024 * 1024))
    /\ component.state.error = FileSizeError(File("large.png", "image/png", 5 * 1024 * 1024 + 1))

\* the payload of a state: JSON of image_url and text when an image is set,
\* the text itself otherwise
PayloadOf(st) ==
    IF st.imageData # Nothing
    THEN JsonText([image_url |-> st.imageData, text |-> st.text])
    ELSE st.text

Emitting == {"handleTextChange", "reader.onload", "handleRemoveImage"}

\* C18: a text change, a completed read and an image removal each call
\* onChange once, nothing else calls it, and the value of every call is the
\* payload of the state the component is then in: the JSON string of
\* image_url and text exactly when an image is set, the plain text otherwise.
C18_EmitsCurrentPayload ==
    [][ /\ component'.onChange # component.onChange =>
                /\ component'.last \in Emitting
                /\ component'.onChange.calls = component.onChange.calls + 1
                /\ component'.onChange.value = PayloadOf(component'.state)
                /\ component'.onChange.value.k = "json"
                        <=> component'.state.imageData # Nothing
        /\ (component' # component /\ component'.last \in Emitting) =>
                component'.onChange.calls = component.onChange.calls + 1
      ]_vars

\* C19: handleRemoveImage, whatever the state, sets imageData, imagePreview
\* and fileName to null and error to null, leaves text (and every other part
\* of the component) as it was, and calls onChange once with the text.
C19_RemoveImage ==
    [][ HandleRemoveImage =>
            /\ ImageOf(component') = <<Nothing, Nothing, Nothing>>
            /\ component'.state.error = Nothing
            /\ component'.state.text = component.state.text
            /\ component'.state.isDragOver = component.state.isDragOver
            /\ component'.readers = component.readers
            /\ component'.onChange.calls = component.onChange.calls + 1
            /\ component'.onChange.value = component.state.text
      ]_vars

\* the image of the value prop removed while an error was shown: the only
\* onChange so far is the one of the removal
C19_Witness ==
    /\ component.last = "handleRemoveImage"
    /\ component.value = JsonText([image_url |-> PropImage, text |-> Text("Describe this image")])
    /\ component.state.text = Text("Describe this image")
    /\ component.state.imageData = Nothing
    /\ component.onChange = [calls |-> 1, value |-> Text("Describe this image")]


\* C21: in every state of the component, text and image, the output of
\* buildMessagePayload given to parseIncomingValue sets the same text and the
\* same imageData again; a state without an image comes back without one.
C21_PayloadRoundTrip ==
    LET back == ParseIncomingValue(InitialState, BuildMessagePayload(component.state))
    IN  /\ back.text = component.state.text
        /\ back.imageData = component.state.imageData


(***************************************************************************)
(* Claims about retrievePatient with a publisher that may throw, under     *)
(* ThrowingSpec.                                                           *)
(***************************************************************************)
\* C22: in every run, also when store.dispatch throws, publishSuccess is
\* called at most once, and publishSuccess and publishFailure are never both
\* called.
C22_SuccessAtMostOnce ==
    \A r \in Runs :
        /\ Cardinality(DispatchesOf(r, "success")) <= 1
        /\ DispatchesOf(r, "success") = {} \/ DispatchesOf(r, "failure") = {}


(***************************************************************************)
(* Claims about overlapping runs, under OverlapSpec.                       *)
(***************************************************************************)
\* the requests of run r, any kind
IssuedBy(r) == {i \in 1..Len(requests) : requests[i].run = r}

\* publication d of run r carries what r's own patient request and r's own
\* conditions request, made for the same identifier, returned
OwnData(r, d) ==
    /\ Cardinality(RequestsOf(r, "patient")) = 1
    /\ Cardinality(RequestsOf(r, "conditions")) = 1
    /\ \A i \in RequestsOf(r, "patient"), j \in RequestsOf(r, "conditions") :
          /\ requests[i].state = "resolved"
          /\ d.patient = requests[i].data
          /\ d.patient.id = requests[i].id
          /\ requests[j].id = requests[i].id
          /\ requests[j].state # "pending"
          /\ d.conditions = IF requests[j].state = "resolved"
                            THEN requests[j].data ELSE NoBody

\* C23: with two runs interleaved at their GETs, each run publishes nothing
\* before it ends and exactly once when it has ended, and every success it
\* publishes carries the patient and the conditions that its own two
\* requests, made for one identifier, returned.
C23_OverlappingRunsKeepTheirData ==
    \A r \in TwoRuns :
        LET published == {i \in 1..Len(dispatched) : dispatched[i].run = r}
        IN  /\ Cardinality(published) = IF Finished(r) THEN 1 ELSE 0
            /\ \A i \in published :
                  dispatched[i].type = "success" => OwnData(r, dispatched[i])

\* both runs succeeded for different identifiers, run 2 having started while
\* run 1 waited for its patient and published before run 1 did
C23_Witness ==
    /\ Len(requests) = 4 /\ Len(dispatched) = 2
    /\ requests[1].run = 1 /\ requests[2].run = 2
    /\ requests[1].id # requests[2].id
    /\ dispatched[1].run = 2 /\ dispatched[2].run = 1
    /\ \A i \in 1..2 : /\ dispatched[i].type = "success"
                       /\ dispatched[i].conditions.hasData

\* C24: all requests of a run go to one server base with one header set, and
\* its patient and conditions requests name one identifier, whatever happens
\* to the store, the cache and the query string while the run waits.
C24_OneReadPerRun ==
    \A r \in TwoRuns :
        /\ \A i, j \in IssuedBy(r) :
              /\ requests[i].server = requests[j].server
              /\ requests[i].headers = requests[j].headers
        /\ \A i \in RequestsOf(r, "patient"), j \in RequestsOf(r, "conditions") :
              requests[i].id = requests[j].id

\* run 1 asked for its conditions after run 2 had started from a changed
\* store: other server, other headers, other identifier; the cache and the
\* query string have changed too
C24_Witness ==
    /\ Len(requests) >= 3
    /\ requests[1].run = 1 /\ requests[1].kind = "patient"
    /\ requests[2].run = 2
    /\ requests[3].run = 1 /\ requests[3].kind = "conditions"
    /\ requests[2].server # requests[1].server
    /\ requests[2].headers # requests[1].headers
    /\ requests[2].id # requests[1].id
    /\ locationSearch # Absent /\ localStorage # Absent


\* the read of reader i was started before a removal or before a later
\* accepted selection
Stale(i) == ~(component.fresh /\ i = Len(component.readers))

\* C25: a read that was started before a removal, or before a later accepted
\* selection, and completes afterwards leaves imageData, imagePreview and
\* fileName as they are: after handleRemoveImage there is no image until a
\* file selected later has been read, and the image is that of the most
\* recent accepted selection.
C25_StaleReadIgnored ==
    [][ \A i \in 1..Len(component.readers) :
            (component'.last = "reader.onload" /\ ReaderLoad(i) /\ Stale(i)) =>
                ImageOf(component') = ImageOf(component)
      ]_vars


\* C26: in every state the handlers lead to, imagePreview equals imageData,
\* fileName is null exactly when imageData is null, and the drop zone shows
\* exactly one of the upload prompt and the image preview: the preview when
\* an image is held, the prompt when none is.
C26_ImageFieldsAgree ==
    LET st == component.state
    IN  /\ st.imagePreview = st.imageData
        /\ st.fileName = Nothing <=> st.imageData = Nothing
        /\ ShowsUploadPrompt(st) # ShowsImagePreview(st)
        /\ ShowsImagePreview(st) <=> st.imageData # Nothing

\* the image of a new value prop, taken while a file is dragged over the
\* component and a read is going on
C26_Witness ==
    /\ component.last = "componentDidUpdate"
    /\ component.state.imageData = PropImage
    /\ component.state.fileName = Text("image")
    /\ component.state.isDragOver
    /\ component.readers # <<>>


(***************************************************************************)
(* Claims about communicationReducers, under ReducerSpec.                  *)
(***************************************************************************)
\* C27: whatever was dispatched before, the state after RESET_SERVICES has
\* message '', priority 'routine', recipient '' and the authoredOn that
\* initialState was given when the module was loaded, and the state after an
\* action of an unhandled type is the state before it; initialState itself is
\* never changed.
C27_ResetAndDefault ==
    /\ communication.initialState \in {InitialStateAt(t) : t \in LoadTimes}
    /\ communication.type = "RESET_SERVICES" =>
          /\ communication.state.message = Str(<<>>)
          /\ communication.state.priority = Str(<<"r", "o", "u", "t", "i", "n", "e">>)
          /\ communication.state.recipient = Str(<<>>)
          /\ communication.state.authoredOn = communication.initialState.authoredOn
    /\ (communication.type \notin HandledTypes /\ communication.previous # UndefinedState) =>
          communication.state = communication.previous

\* RESET_SERVICES dispatched in a state whose four fields had all been changed
C27_Witness ==
    /\ communication.type = "RESET_SERVICES"
    /\ communication.previous # UndefinedState
    /\ communication.previous.message # communication.initialState.message
    /\ communication.previous.priority # communication.initialState.priority
    /\ communication.previous.recipient # communication.initialState.recipient
    /\ communication.previous.authoredOn # communication.initialState.authoredOn
    /\ communication.state = communication.initialState

=============================================================================
